---- MODULE Spec2Model ----
(***************************************************************************)
(* Model of src/src/import_helper.py: SparkImportHelper.add_deps and its   *)
(* helpers (__find_files, __get_sub_module, __add_module).                 *)
(*                                                                         *)
(* A file name is a sequence of one-character strings, a path is a         *)
(* sequence of names counted from the filesystem root.  The filesystem is  *)
(* the pair (dirs, files) plus the entry list of every zip archive.        *)
(* The base tree handed to add_deps lies outside the directory in which    *)
(* tempfile.mkdtemp() creates its directories, there are no symbolic links *)
(* and nothing but add_deps changes the filesystem while it runs.          *)
(***************************************************************************)
EXTENDS Integers, Sequences, FiniteSets, TLC

VARIABLES dirs, files, content, unreadable,
          tmpdir, nextTmp, calls, overlapped,
          pc, argdir, basedir, exts, todo, filepath, exc, created, log,
          find_args, target_files

fsVars     == <<dirs, files, content, unreadable>>
instVars   == <<tmpdir, nextTmp, calls, overlapped>>
threadVars == <<pc, argdir, basedir, exts, todo, filepath, exc, created, log,
                find_args, target_files>>
vars       == <<dirs, files, content, unreadable, tmpdir, nextTmp, calls,
                overlapped, pc, argdir, basedir, exts, todo, filepath, exc,
                created, log, find_args, target_files>>

\* ---------------------------------------------------------------- bounds
\* number of add_deps invocations made on the one helper instance
MaxCalls == 2

\* ------------------------------------------------------- names and paths
Dot     == <<".">>
DotDot  == <<".", ".">>
BName   == <<"b">>
KName   == <<"k">>
SName   == <<"s", ".", "p">>
EName   == <<"e", ".", "p">>
MName   == <<"m", ".", "p">>
UName   == <<"u", ".", "t">>
HName   == <<".", "p">>
DName   == <<"d", ".", "p">>
XName   == <<"x">>
TName   == <<"T">>

DotP    == <<".", "p">>
DotT    == <<".", "t">>
NoExt   == <<>>
ZipSuffix == <<".", "z", "i", "p">>

\* the empty path stands for Python's None and for the empty string ""
NoPath  == <<>>

Base    == <<BName>>
TmpRoot == <<TName>>

Digits  == <<"1", "2", "3", "4", "5", "6", "7", "8", "9">>
TmpName(i) == <<"t", "m", "p", Digits[i]>>

Threads == {"t1", "t2"}

\* os.path.join(a, name)
Join(a, name) == Append(a, name)

\* os.path.basename of a normalised path
Basename(p) == IF p = <<>> THEN <<>> ELSE p[Len(p)]

IsPrefix(a, p) == Len(a) <= Len(p) /\ SubSeq(p, 1, Len(a)) = a

\* os.path.normpath of an absolute path: "." components vanish, ".." removes
\* the component before it (and vanishes at the root)
RECURSIVE NormFrom(_, _, _)
NormFrom(done, rest, absolute) ==
    IF rest = <<>> THEN done
    ELSE LET c == Head(rest) IN
         IF c = Dot \/ c = <<>> THEN NormFrom(done, Tail(rest), absolute)
         ELSE IF c = DotDot
              THEN IF done # <<>> /\ done[Len(done)] # DotDot
                   THEN NormFrom(SubSeq(done, 1, Len(done) - 1), Tail(rest), absolute)
                   ELSE IF absolute
                        THEN NormFrom(done, Tail(rest), absolute)
                        ELSE NormFrom(Append(done, c), Tail(rest), absolute)
              ELSE NormFrom(Append(done, c), Tail(rest), absolute)

normpath(p) == NormFrom(<<>>, p, TRUE)

\* the normalisation ZipFile.write applies to the (relative) entry name
arcname(p) == NormFrom(<<>>, p, FALSE)

\* length of the longest common prefix of two paths
RECURSIVE CommonLen(_, _)
CommonLen(a, b) ==
    IF a = <<>> \/ b = <<>> \/ Head(a) # Head(b) THEN 0
    ELSE 1 + CommonLen(Tail(a), Tail(b))

\* os.path.relpath(p, start): one ".." for every component of start that is
\* not shared, then what is left of p
relpathFromSubdir(p, start) == SubSeq(p, Len(start) + 2, Len(p))

relpath(p, start) ==
    LET i == CommonLen(start, p)
    IN  [k \in 1..(Len(start) - i) |-> DotDot] \o SubSeq(p, i + 1, Len(p))

\* index of the last "." of a name, 0 when there is none
RECURSIVE LastDot(_, _)
LastDot(n, i) ==
    IF i = 0 THEN 0 ELSE IF n[i] = "." THEN i ELSE LastDot(n, i - 1)

\* os.path.splitext(p)[1]: the suffix of the last component starting at its
\* last dot, unless only dots precede that dot
splitextAnyDot(p) ==
    LET n == Basename(p)
        d == LastDot(n, Len(n))
    IN  IF d >= 1 THEN SubSeq(n, d, Len(n)) ELSE <<>>

splitext(p) ==
    LET n == Basename(p)
        d == LastDot(n, Len(n))
    IN  IF d >= 1 /\ \E i \in 1..(d - 1) : n[i] # "."
        THEN SubSeq(n, d, Len(n)) ELSE <<>>

\* ------------------------------------------------------------ filesystem
isdir(p)  == p \in dirs
isfile(p) == p \in files

RECURSIVE SetToSeq(_)
SetToSeq(S) ==
    IF S = {} THEN <<>>
    ELSE LET x == CHOOSE y \in S : TRUE IN <<x>> \o SetToSeq(S \ {x})

\* os.listdir(d): the names of the children of d, in the directory's order
listdir(d) ==
    SetToSeq({ Basename(p) : p \in { q \in dirs \cup files :
                                     Len(q) = Len(d) + 1 /\ IsPrefix(d, q) } })

RECURSIVE FilterSeq(_, _, _)
\* the elements of s whose path below d is (keep = TRUE) or is not a directory
FilterSeq(d, s, keep) ==
    IF s = <<>> THEN <<>>
    ELSE (IF isdir(Join(d, Head(s))) = keep THEN <<Join(d, Head(s))>> ELSE <<>>)
         \o FilterSeq(d, Tail(s), keep)

\* os.walk(top), top-down: the non-directories of top, then those of every
\* sub-directory in turn
RECURSIVE walk(_)
RECURSIVE walkEach(_)
walkTopOnly(top) == FilterSeq(top, listdir(top), FALSE)

walk(top) ==
    LET names == listdir(top)
    IN  FilterSeq(top, names, FALSE) \o walkEach(FilterSeq(top, names, TRUE))

walkEach(ds) ==
    IF ds = <<>> THEN <<>> ELSE walk(Head(ds)) \o walkEach(Tail(ds))

\* the direct children of d that are regular files (lines 58-62)
RECURSIVE childFiles(_, _)
childFilesNoIsfile(d, names) == [i \in 1..Len(names) |-> Join(d, names[i])]

childFiles(d, names) ==
    IF names = <<>> THEN <<>>
    ELSE (IF isfile(Join(d, Head(names))) THEN <<Join(d, Head(names))>> ELSE <<>>)
         \o childFiles(d, Tail(names))

\* filtering with file extension (lines 53-55 and 65-67)
RECURSIVE filterExt(_, _)
filterExt(all_files, e) ==
    IF all_files = <<>> THEN <<>>
    ELSE (IF splitext(Head(all_files)) \in e THEN <<Head(all_files)>> ELSE <<>>)
         \o filterExt(Tail(all_files), e)

\* __find_files on a directory; the ValueError of line 42 is raised by the
\* callers' guards (find_files_raises)
find_files_raisesNever(d) == FALSE

find_files_raises(d) == ~ isdir(d)

find_files(d, e, recursive) ==
    IF recursive THEN filterExt(walk(d), e)
    ELSE filterExt(childFiles(d, listdir(d)), e)

\* absolute paths of top-level sub-directories (lines 128-132)
subdirsOf(d) == FilterSeq(d, listdir(d), TRUE)

\* the zfp.write loop of lines 83-85: entry names written until a source file
\* cannot be read
RECURSIVE writeEntries(_, _)
writeEntries(matched, base) ==
    IF matched = <<>> THEN [entries |-> <<>>, failed |-> FALSE]
    ELSE IF Head(matched) \in unreadable
         THEN [entries |-> <<>>, failed |-> TRUE]
         ELSE LET r == writeEntries(Tail(matched), base)
              IN  [entries |-> <<arcname(relpath(Head(matched), base))>> \o r.entries,
                   failed  |-> r.failed]

\* ----------------------------------------------------------------- inputs
CandFiles == { <<BName, MName>>, <<BName, HName>>, <<BName, UName>>,
               <<BName, KName, MName>>, <<BName, KName, SName, DName>>,
               <<BName, EName, UName>> }
CandEmptyDirs == { <<BName, EName>> }
CandUnreadable == { <<BName, KName, MName>> }

\* the directories a file lies in
Parents(f) == { SubSeq(f, 1, k) : k \in 1..(Len(f) - 1) }

\* the basedir arguments add_deps is called with: the base directory written
\* in three ways, one of its sub-directories, a path that does not exist and
\* the path of a file
BaseArgs == { Base, <<BName, Dot>>, <<BName, KName, DotDot>>,
              <<BName, KName>>, <<XName>>, <<BName, MName>> }

\* the exts arguments ([".py"] is the default of line 98)
ExtSets == { {DotP}, {DotT}, {DotP, DotT}, {NoExt} }

Active == { "main_modules", "mkdtemp", "sub_modules", "add_module", "rmtree" }

\* the calls add_deps makes on the filesystem, on Spark and on the logger's
\* warning; onDisk tells whether the path and its directory existed then
Event(o, p, d) == [op |-> o, path |-> p, onDisk |-> d]

Parent(p) == SubSeq(p, 1, Len(p) - 1)

exists(p) == (isfile(p) \/ isdir(p)) /\ isdir(Parent(p))

\* ------------------------------------------------------------------- Init
\* __init__ (lines 33-35) on an arbitrary tree of the family
Init ==
    /\ files \in SUBSET CandFiles
    /\ \E extra \in SUBSET CandEmptyDirs :
          dirs = {Base, TmpRoot} \cup extra
                 \cup UNION { Parents(f) : f \in files }
    /\ unreadable \in SUBSET (files \cap CandUnreadable)
    /\ content = {}
    /\ tmpdir = NoPath
    /\ nextTmp = 1
    /\ calls = 0
    /\ overlapped = FALSE
    /\ pc = [t \in Threads |-> "idle"]
    /\ argdir = [t \in Threads |-> NoPath]
    /\ basedir = [t \in Threads |-> NoPath]
    /\ exts = [t \in Threads |-> {}]
    /\ todo = [t \in Threads |-> <<>>]
    /\ filepath = [t \in Threads |-> NoPath]
    /\ exc = [t \in Threads |-> "none"]
    /\ created = [t \in Threads |-> NoPath]
    /\ log = [t \in Threads |-> <<>>]
    /\ find_args = [t \in Threads |-> [root |-> NoPath, recursive |-> FALSE]]
    /\ target_files = [t \in Threads |-> <<>>]

\* ---------------------------------------------------------------- actions
\* __add_module (lines 90-95), followed by the caller's move to nextpc; ok
\* tells whether SparkContext.addPyFile returns or raises
add_moduleAlways(t, fp, ok, nextpc) ==
    /\ log' = [log EXCEPT ![t] = Append(@, Event("addPyFile", fp, exists(fp)))]
    /\ pc'  = [pc EXCEPT ![t] = IF ok THEN nextpc ELSE "raised"]
    /\ exc' = [exc EXCEPT ![t] = IF ok THEN @ ELSE "SparkError"]

add_module(t, fp, ok, nextpc) ==
    IF fp # NoPath
    THEN /\ log' = [log EXCEPT ![t] = Append(@, Event("addPyFile", fp, exists(fp)))]
         /\ pc'  = [pc EXCEPT ![t] = IF ok THEN nextpc ELSE "raised"]
         /\ exc' = [exc EXCEPT ![t] = IF ok THEN @ ELSE "SparkError"]
    ELSE /\ ok
         /\ log' = [log EXCEPT ![t] = Append(@, Event("warn", fp, TRUE))]
         /\ pc'  = [pc EXCEPT ![t] = nextpc]
         /\ UNCHANGED exc

\* add_deps is entered (lines 105-113): normpath, then the non-recursive
\* __find_files, which raises ValueError when basedir is not a directory
Call(t, arg, e) ==
    /\ pc[t] \notin Active
    /\ calls < MaxCalls
    /\ calls' = calls + 1
    /\ overlapped' = (overlapped \/ \E u \in Threads \ {t} : pc[u] \in Active)
    /\ argdir'  = [argdir EXCEPT ![t] = arg]
    /\ basedir' = [basedir EXCEPT ![t] = normpath(arg)]
    /\ exts'    = [exts EXCEPT ![t] = e]
    /\ filepath' = [filepath EXCEPT ![t] = NoPath]
    /\ created'  = [created EXCEPT ![t] = NoPath]
    /\ log'      = [log EXCEPT ![t] = <<>>]
    /\ find_args' = [find_args EXCEPT ![t] = [root |-> normpath(arg),
                                              recursive |-> FALSE]]
    /\ IF find_files_raises(normpath(arg))
       THEN /\ pc'   = [pc EXCEPT ![t] = "raised"]
            /\ exc'  = [exc EXCEPT ![t] = "ValueError"]
            /\ todo' = [todo EXCEPT ![t] = <<>>]
            /\ target_files' = [target_files EXCEPT ![t] = <<>>]
       ELSE LET found == find_files(normpath(arg), e, FALSE) IN
            /\ pc'   = [pc EXCEPT ![t] = IF found = <<>> THEN "mkdtemp"
                                         ELSE "main_modules"]
            /\ exc'  = [exc EXCEPT ![t] = "none"]
            /\ todo' = [todo EXCEPT ![t] = found]
            /\ target_files' = [target_files EXCEPT ![t] = found]
    /\ UNCHANGED <<fsVars, tmpdir, nextTmp>>

\* one turn of the loop of lines 113-114
AddMainModule(t, ok) ==
    /\ pc[t] = "main_modules"
    /\ todo[t] # <<>>
    /\ add_module(t, Head(todo[t]), ok,
                  IF Tail(todo[t]) = <<>> THEN "mkdtemp" ELSE "main_modules")
    /\ todo' = [todo EXCEPT ![t] = Tail(@)]
    /\ UNCHANGED <<fsVars, instVars, argdir, basedir, exts, filepath, created,
                   find_args, target_files>>

\* lines 124-132: tempfile.mkdtemp() into self.tmpdir, then the listing of the
\* top-level sub-directories
Mkdtemp(t) ==
    /\ pc[t] = "mkdtemp"
    /\ LET d    == Join(TmpRoot, TmpName(nextTmp))
           subs == subdirsOf(basedir[t])
       IN  /\ dirs'    = dirs \cup {d}
           /\ tmpdir'  = d
           /\ created' = [created EXCEPT ![t] = d]
           /\ log'     = [log EXCEPT ![t] = Append(@, Event("mkdtemp", d, TRUE))]
           /\ todo'    = [todo EXCEPT ![t] = subs]
           /\ pc'      = [pc EXCEPT ![t] = IF subs = <<>> THEN "rmtree"
                                           ELSE "sub_modules"]
    /\ nextTmp' = nextTmp + 1
    /\ UNCHANGED <<files, content, unreadable, calls, overlapped,
                   argdir, basedir, exts, filepath, exc, find_args, target_files>>

\* __get_sub_module (lines 72-88) for the next sub-directory (line 136)
GetSubModule(t) ==
    /\ pc[t] = "sub_modules"
    /\ todo[t] # <<>>
    /\ LET subdir  == Head(todo[t])
           matched == find_files(subdir, exts[t], TRUE)
           zipmod_path == Join(tmpdir, Basename(subdir) \o ZipSuffix)
           w       == writeEntries(matched, basedir[t])
       IN  /\ find_args' = [find_args EXCEPT ![t] = [root |-> subdir,
                                                     recursive |-> TRUE]]
           /\ target_files' = [target_files EXCEPT ![t] =
                                   IF find_files_raises(subdir) THEN <<>> ELSE matched]
           /\ IF find_files_raises(subdir)
              THEN /\ pc'  = [pc EXCEPT ![t] = "raised"]
                   /\ exc' = [exc EXCEPT ![t] = "ValueError"]
                   /\ UNCHANGED <<files, content, filepath, log>>
              ELSE IF matched = <<>>
              THEN /\ filepath' = [filepath EXCEPT ![t] = NoPath]
                   /\ pc' = [pc EXCEPT ![t] = "add_module"]
                   /\ UNCHANGED <<files, content, exc, log>>
              ELSE IF ~ isdir(tmpdir)
              THEN \* zipfile.ZipFile(zipmod_path, "w") cannot create the file
                   /\ pc'  = [pc EXCEPT ![t] = "raised"]
                   /\ exc' = [exc EXCEPT ![t] = "IOError:workspace"]
                   /\ UNCHANGED <<files, content, filepath, log>>
              ELSE /\ files' = files \cup {zipmod_path}
                   /\ content' = { c \in content : c.path # zipmod_path }
                                 \cup { [path |-> zipmod_path, entries |-> w.entries] }
                   /\ log' = [log EXCEPT ![t] = Append(@, Event("zip", zipmod_path, TRUE))]
                   /\ IF w.failed
                      THEN /\ pc'  = [pc EXCEPT ![t] = "raised"]
                           /\ exc' = [exc EXCEPT ![t] = "IOError:source"]
                           /\ UNCHANGED filepath
                      ELSE /\ pc'  = [pc EXCEPT ![t] = "add_module"]
                           /\ filepath' = [filepath EXCEPT ![t] = zipmod_path]
                           /\ UNCHANGED exc
    /\ UNCHANGED <<dirs, unreadable, instVars, argdir, basedir, exts, todo, created>>

\* AddSubModule with a cleanup on the failure path
AddSubModuleCleanup(t, ok) ==
    /\ pc[t] = "add_module"
    /\ add_module(t, filepath[t], ok,
                  IF Tail(todo[t]) = <<>> THEN "rmtree" ELSE "sub_modules")
    /\ todo' = [todo EXCEPT ![t] = Tail(@)]
    /\ IF ok \/ filepath[t] = NoPath
       THEN UNCHANGED <<dirs, files, content>>
       ELSE /\ dirs'    = { d \in dirs : ~ IsPrefix(tmpdir, d) }
            /\ files'   = { f \in files : ~ IsPrefix(tmpdir, f) }
            /\ content' = { c \in content : ~ IsPrefix(tmpdir, c.path) }
    /\ UNCHANGED <<unreadable, instVars, argdir, basedir, exts, filepath, created,
                   find_args, target_files>>

\* AddSubModule with the removal of lines 139-140 moved into the loop
AddSubModuleRmtreeInLoop(t, ok) ==
    /\ pc[t] = "add_module"
    /\ todo' = [todo EXCEPT ![t] = Tail(@)]
    /\ pc' = [pc EXCEPT ![t] = IF ~ ok THEN "raised"
                               ELSE IF Tail(todo[t]) = <<>> THEN "rmtree"
                               ELSE "sub_modules"]
    /\ exc' = [exc EXCEPT ![t] = IF ok THEN @ ELSE "SparkError"]
    /\ log' = [log EXCEPT ![t] =
                  (IF filepath[t] # NoPath
                   THEN Append(@, Event("addPyFile", filepath[t], exists(filepath[t])))
                   ELSE Append(@, Event("warn", NoPath, TRUE)))
                  \o (IF ok THEN <<Event("rmtree", tmpdir, exists(tmpdir))>> ELSE <<>>)]
    /\ IF ok
       THEN /\ dirs'    = { d \in dirs : ~ IsPrefix(tmpdir, d) }
            /\ files'   = { f \in files : ~ IsPrefix(tmpdir, f) }
            /\ content' = { c \in content : ~ IsPrefix(tmpdir, c.path) }
       ELSE UNCHANGED <<dirs, files, content>>
    /\ UNCHANGED <<unreadable, instVars, argdir, basedir, exts, filepath, created,
                   find_args, target_files>>

\* line 137: __add_module on what __get_sub_module returned, then on to the
\* next sub-directory or to the removal
AddSubModule(t, ok) ==
    /\ pc[t] = "add_module"
    /\ add_module(t, filepath[t], ok,
                  IF Tail(todo[t]) = <<>> THEN "rmtree" ELSE "sub_modules")
    /\ todo' = [todo EXCEPT ![t] = Tail(@)]
    /\ UNCHANGED <<fsVars, instVars, argdir, basedir, exts, filepath, created,
                   find_args, target_files>>

\* lines 139-140: shutil.rmtree(self.tmpdir)
RmtreeKeep(t) ==
    /\ pc[t] = "rmtree"
    /\ pc' = [pc EXCEPT ![t] = "returned"]
    /\ log' = [log EXCEPT ![t] = Append(@, Event("rmtree", tmpdir, exists(tmpdir)))]
    /\ UNCHANGED <<fsVars, instVars, argdir, basedir, exts, todo, filepath, exc,
                   created, find_args, target_files>>

Rmtree(t) ==
    /\ pc[t] = "rmtree"
    /\ log' = [log EXCEPT ![t] = Append(@, Event("rmtree", tmpdir, exists(tmpdir)))]
    /\ IF isdir(tmpdir)
       THEN /\ dirs'    = { d \in dirs : ~ IsPrefix(tmpdir, d) }
            /\ files'   = { f \in files : ~ IsPrefix(tmpdir, f) }
            /\ content' = { c \in content : ~ IsPrefix(tmpdir, c.path) }
            /\ pc' = [pc EXCEPT ![t] = "returned"]
            /\ UNCHANGED exc
       ELSE /\ pc'  = [pc EXCEPT ![t] = "raised"]
            /\ exc' = [exc EXCEPT ![t] = "OSError:workspace"]
            /\ UNCHANGED <<dirs, files, content>>
    /\ UNCHANGED <<unreadable, instVars, argdir, basedir, exts, todo, filepath,
                   created, find_args, target_files>>

Step(t) ==
    \/ \E arg \in BaseArgs, e \in ExtSets : Call(t, arg, e)
    \/ \E ok \in BOOLEAN : AddMainModule(t, ok)
    \/ Mkdtemp(t)
    \/ GetSubModule(t)
    \/ \E ok \in BOOLEAN : AddSubModule(t, ok)
    \/ Rmtree(t)

\* one caller: add_deps is invoked again only after it has returned or raised
Next == Step("t1")

Spec == Init /\ [][Next]_vars

\* two callers share the helper instance
NextConc == \E t \in Threads : Step(t)

\* the concurrent runs start from the smaller trees
ConcFiles == { <<BName, MName>>, <<BName, KName, MName>>, <<BName, EName, UName>> }

InitConc ==
    /\ Init
    /\ files \subseteq ConcFiles
    /\ dirs = {Base, TmpRoot} \cup UNION { Parents(f) : f \in files }
    /\ unreadable = {}

SpecConc == InitConc /\ [][NextConc]_vars

\* ------------------------------------------------ vocabulary of the claims
SeqSet(s) == { s[i] : i \in DOMAIN s }
NoDup(s)  == \A i, j \in DOMAIN s : i # j => s[i] # s[j]

\* the extension of each file name of the trees
ExtensionOf(f) ==
    CASE Basename(f) = MName -> DotP
      [] Basename(f) = DName -> DotP
      [] Basename(f) = UName -> DotT
      [] Basename(f) = HName -> NoExt
      [] OTHER -> NoExt

\* the files below root (deep) or directly in root (not deep) whose extension
\* is in e
Matching(root, e, deep) ==
    { f \in files : /\ IsPrefix(root, f)
                    /\ Len(f) > Len(root)
                    /\ deep \/ Len(f) = Len(root) + 1
                    /\ ExtensionOf(f) \in e }

\* the immediate sub-directories of d
SubDirs(d) == { x \in dirs : Len(x) = Len(d) + 1 /\ IsPrefix(d, x) }

\* the archive add_deps makes of sub-directory d in workspace w
ArchiveOf(w, d) == Join(w, Basename(d) \o ZipSuffix)

Regs(t) == SelectSeq(log[t], LAMBDA ev : ev.op = "addPyFile")
RegPaths(t) == [i \in DOMAIN Regs(t) |-> Regs(t)[i].path]
Ops(t, o) == { i \in DOMAIN log[t] : log[t][i].op = o }

\* what the operating system makes of a path: every component but the last
\* must be an existing directory, "." stays and ".." goes up
RECURSIVE OsResolve(_, _)
OsResolve(cur, rest) ==
    IF rest = <<>> THEN [ok |-> TRUE, path |-> cur]
    ELSE IF ~ (cur = <<>> \/ cur \in dirs) THEN [ok |-> FALSE, path |-> cur]
    ELSE LET c == Head(rest) IN
         IF c = Dot THEN OsResolve(cur, Tail(rest))
         ELSE IF c = DotDot
              THEN OsResolve(IF cur = <<>> THEN cur ELSE Parent(cur), Tail(rest))
              ELSE IF Append(cur, c) \in dirs \cup files
                   THEN OsResolve(Append(cur, c), Tail(rest))
                   ELSE [ok |-> FALSE, path |-> cur]

OsIsDir(p) == LET r == OsResolve(<<>>, p) IN r.ok /\ r.path \in dirs

\* ------------------------------------------------------------------ claims
\* C1 as stated: add_deps on a base path that does not exist or is not a
\* directory raises ValueError before any registration and before the
\* workspace is created.
C1_Original ==
    \A t \in Threads :
        (pc[t] # "idle" /\ ~ OsIsDir(argdir[t]))
        => /\ pc[t] = "raised" /\ exc[t] = "ValueError"
           /\ log[t] = <<>> /\ created[t] = NoPath

\* C1 amended: add_deps on a base path whose normalised form (os.path.normpath)
\* does not exist or is not a directory raises ValueError before any
\* registration and before the workspace is created.
C1_InvalidBaseRaisesFirst ==
    \A t \in Threads :
        (pc[t] # "idle" /\ ~ isdir(normpath(argdir[t])))
        => /\ pc[t] = "raised" /\ exc[t] = "ValueError"
           /\ log[t] = <<>> /\ created[t] = NoPath
           /\ Regs(t) = <<>>

C1_Witness ==
    \E t \in Threads :
        /\ pc[t] = "raised" /\ exc[t] = "ValueError"
        /\ argdir[t] = <<BName, MName>> /\ isfile(argdir[t])
        /\ calls = 2

\* C2: a normally completed add_deps has made exactly one registration per
\* matching top-level file and one per immediate sub-directory holding a
\* matching file at any depth (its archive), and no other.
C2_ExactRegistrations ==
    \A t \in Threads :
        pc[t] = "returned"
        => /\ NoDup(RegPaths(t))
           /\ SeqSet(RegPaths(t)) =
                Matching(basedir[t], exts[t], FALSE)
                \cup { ArchiveOf(created[t], d) :
                         d \in { x \in SubDirs(basedir[t]) :
                                   Matching(x, exts[t], TRUE) # {} } }

C2_Witness ==
    \E t \in Threads :
        /\ pc[t] = "returned" /\ basedir[t] = Base
        /\ files = { <<BName, MName>>, <<BName, UName>>,
                     <<BName, KName, MName>>, <<BName, KName, SName, DName>> }
        /\ RegPaths(t) \in { <<a, b, c>> : a, b \in { <<BName, MName>>, <<BName, UName>> },
                                          c \in { ArchiveOf(created[t], <<BName, KName>>) } }
        /\ Len(Regs(t)) = 3

\* C3: packaging a sub-directory with N >= 1 matching files leaves one archive
\* <basename>.zip in the workspace with exactly N entries, each named by the
\* file's path relative to the base directory.
C3_ArchiveEntries ==
    \A t \in Threads :
        (pc[t] = "add_module" /\ Matching(Head(todo[t]), exts[t], TRUE) # {})
        => LET subdir == Head(todo[t])
               M      == Matching(subdir, exts[t], TRUE)
           IN  /\ filepath[t] = ArchiveOf(created[t], subdir)
               /\ isdir(created[t]) /\ isfile(filepath[t])
               /\ Cardinality({ c \in content : c.path = filepath[t] }) = 1
               /\ \A c \in content :
                     c.path = filepath[t]
                     => /\ Len(c.entries) = Cardinality(M)
                        /\ SeqSet(c.entries) =
                             { SubSeq(f, Len(basedir[t]) + 1, Len(f)) : f \in M }
                        /\ \A i \in DOMAIN c.entries :
                              Head(c.entries[i]) = Basename(subdir)

C3_Witness ==
    \E t \in Threads :
        /\ pc[t] = "add_module" /\ basedir[t] = Base
        /\ \E c \in content :
              /\ c.path = filepath[t]
              /\ SeqSet(c.entries) = { <<KName, MName>>, <<KName, SName, DName>> }

\* C4: the non-recursive find_files returns exactly the matching files that
\* are direct children of the root: no directory, nothing nested, nothing
\* whose extension is not in the set, nothing missing.
C4_NonRecursiveExact ==
    \A t \in Threads :
        (pc[t] # "idle" /\ ~ find_args[t].recursive /\ isdir(find_args[t].root))
        => /\ NoDup(target_files[t])
           /\ SeqSet(target_files[t]) = Matching(find_args[t].root, exts[t], FALSE)
           /\ SeqSet(target_files[t]) \cap dirs = {}

C4_Witness ==
    \E t \in Threads :
        /\ pc[t] = "main_modules" /\ log[t] = <<>>
        /\ exts[t] = {DotP}
        /\ target_files[t] = << <<BName, MName>> >>
        /\ {<<BName, UName>>, <<BName, HName>>, <<BName, KName, MName>>} \subseteq files
        /\ <<BName, EName>> \in dirs

\* C5: the recursive find_files returns every matching file below the root,
\* at any depth, each exactly once, and no file whose extension is not in the
\* set.
C5_RecursiveExact ==
    \A t \in Threads :
        (find_args[t].recursive /\ isdir(find_args[t].root))
        => /\ NoDup(target_files[t])
           /\ SeqSet(target_files[t]) = Matching(find_args[t].root, exts[t], TRUE)

C5_Witness ==
    \E t \in Threads :
        /\ find_args[t] = [root |-> <<BName, KName>>, recursive |-> TRUE]
        /\ SeqSet(target_files[t]) =
              { <<BName, KName, MName>>, <<BName, KName, SName, DName>> }

\* C6: a sub-directory without a matching file yields the empty result and no
\* archive; its registration calls nothing and raises nothing, and add_deps
\* goes on with the remaining sub-directories and completes.
C6_EmptySubdirSkipped ==
    \A t \in Threads :
        LET empties == { d \in SubDirs(basedir[t]) :
                           Matching(d, exts[t], TRUE) = {} }
        IN  /\ (pc[t] = "add_module" /\ Head(todo[t]) \in empties)
               => /\ filepath[t] = NoPath
                  /\ ~ isfile(ArchiveOf(created[t], Head(todo[t])))
                  /\ exc[t] = "none"
            /\ pc[t] # "idle"
               => \A i \in DOMAIN log[t] :
                     /\ log[t][i].op = "addPyFile" => log[t][i].path # NoPath
                     /\ created[t] # NoPath
                        => \A d \in empties :
                              log[t][i].path # ArchiveOf(created[t], d)
            /\ pc[t] = "raised"
               => (log[t] = <<>> \/ log[t][Len(log[t])].op # "warn")
            /\ pc[t] = "returned"
               => Cardinality(Ops(t, "warn")) = Cardinality(empties)

C6_Witness ==
    \E t \in Threads :
        /\ pc[t] = "returned"
        /\ \E i, j \in DOMAIN log[t] :
              /\ i < j
              /\ log[t][i].op = "warn"
              /\ log[t][j].op = "addPyFile"

\* C7: when add_deps returns normally the workspace it created is gone with
\* every archive in it; with no sub-directories the workspace is still
\* created, never holds anything and is removed.
C7_WorkspaceRemoved ==
    \A t \in Threads :
        /\ pc[t] = "returned"
           => /\ created[t] # NoPath
              /\ Ops(t, "mkdtemp") # {}
              /\ \A p \in dirs \cup files \cup { c.path : c \in content } :
                    ~ IsPrefix(created[t], p)
        /\ (created[t] # NoPath /\ SubDirs(basedir[t]) = {})
           => \A f \in files : ~ IsPrefix(created[t], f)

C7_Witness ==
    \E t \in Threads :
        /\ pc[t] = "returned"
        /\ Ops(t, "zip") # {}
        /\ calls = 2

\* C8 as stated: an exception during archive creation or during registration
\* propagates and leaves the temporary directory on disk.
C8_Original ==
    \A t \in Threads :
        (pc[t] = "raised" /\ exc[t] \in {"IOError:source", "SparkError"})
        => /\ created[t] # NoPath
           /\ isdir(created[t])

\* C8 amended: an exception during archive creation or during the
\* registration of an archive propagates and leaves the temporary directory,
\* with the archives made so far, on disk; an exception during the
\* registration of a top-level file propagates before any temporary directory
\* exists; in neither case does a cleanup run.
C8_NoCleanupOnFailure ==
    \A t \in Threads :
        (pc[t] = "raised" /\ exc[t] \in {"IOError:source", "SparkError"})
        => LET last == log[t][Len(log[t])]
           IN  /\ log[t] # <<>>
               /\ Ops(t, "rmtree") = {}
               /\ IF last.op = "zip" \/ Parent(last.path) # basedir[t]
                  THEN /\ created[t] # NoPath
                       /\ isdir(created[t])
                       /\ \A i \in Ops(t, "zip") : isfile(log[t][i].path)
                  ELSE /\ created[t] = NoPath
                       /\ Ops(t, "mkdtemp") = {}

C8_Witness ==
    \E t \in Threads :
        /\ pc[t] = "raised" /\ exc[t] = "SparkError"
        /\ isdir(created[t])
        /\ Cardinality(Ops(t, "zip")) = 2

\* C9: only invocations that overlap on the one instance reach a state in
\* which an invocation returned although its workspace is still on disk,
\* wrote its archive into a workspace it did not create, registered an
\* archive that was already removed, or failed on a removed workspace; such
\* an interleaving exists.
C9_UnsafeOnlyWhenConcurrent ==
    (\E t \in Threads :
        \/ pc[t] = "returned" /\ isdir(created[t])
        \/ \E i \in Ops(t, "zip") : ~ IsPrefix(created[t], log[t][i].path)
        \/ \E i \in Ops(t, "addPyFile") : ~ log[t][i].onDisk
        \/ pc[t] = "raised" /\ exc[t] \in {"IOError:workspace", "OSError:workspace"})
    => overlapped

C9_Witness ==
    \E t, u \in Threads :
        /\ pc[t] = "returned" /\ isdir(created[t])
        /\ \E i \in Ops(t, "zip") : ~ IsPrefix(created[t], log[t][i].path)
        /\ pc[u] = "raised" /\ exc[u] = "OSError:workspace"

\* C10: the top-level registrations come first, then the workspace is
\* created, then each sub-directory is packaged and registered before the
\* next one is packaged, then the workspace is removed; every archive is
\* registered while it and the workspace are on disk and nothing is
\* registered after the removal.
C10_StepOrder ==
    \A t \in Threads :
        LET L  == log[t]
            mk == IF Ops(t, "mkdtemp") = {} THEN Len(L) + 1
                  ELSE CHOOSE i \in Ops(t, "mkdtemp") : TRUE
        IN  /\ Cardinality(Ops(t, "mkdtemp")) <= 1
            /\ (created[t] = NoPath) = (Ops(t, "mkdtemp") = {})
            /\ \A j \in DOMAIN L :
                  /\ j < mk => /\ L[j].op = "addPyFile"
                               /\ Parent(L[j].path) = basedir[t]
                               /\ L[j].onDisk
                  /\ j = mk => /\ L[j].path = created[t]
                               /\ j - 1 = Cardinality(Matching(basedir[t], exts[t], FALSE))
                  /\ j > mk =>
                       /\ L[j].op \in {"zip", "addPyFile", "warn", "rmtree"}
                       /\ L[j].op = "addPyFile"
                          => /\ L[j - 1].op = "zip"
                             /\ L[j - 1].path = L[j].path
                             /\ IsPrefix(created[t], L[j].path)
                             /\ L[j].onDisk
                       /\ L[j].op \in {"zip", "warn"} => L[j - 1].op # "zip"
                       /\ L[j].op = "rmtree"
                          => /\ j = Len(L)
                             /\ L[j].path = created[t]
                             /\ pc[t] = "returned"
                             /\ todo[t] = <<>>

C10_Witness ==
    \E t \in Threads :
        /\ pc[t] = "returned"
        /\ Cardinality(Ops(t, "zip")) = 2
        /\ Len(Regs(t)) = 4

====
